---- MODULE Spec2Model ----
(***************************************************************************)
(* A model of ziso-rs (src/main.rs): the ZSO encoder compress_zso, the     *)
(* decoder decompress_zso and their helpers.                               *)
(*                                                                         *)
(* Files are sequences of cells.  A cell is a triple:                      *)
(*   <<"b", n, 0>>     a concrete byte of value n (header, index, padding) *)
(*   <<"raw", v, k>>   byte k of an image block whose content is v         *)
(*   <<"lz", v, k>>    byte k of lz4_flex's compressed form of content v   *)
(*   <<"junk", 0, k>>  a byte that is none of the above                    *)
(*                                                                         *)
(* TLC's integers are 32 bits wide, so the two sizes that make a container *)
(* cross the 2^31 and 2^32 byte marks are kept symbolic and instantiated   *)
(* small: the block size (0x800 in the source) is BlockSize, and the width *)
(* of the u32 index words is IdxBits, so that 0x80000000 is PlainFlag =    *)
(* 2^(IdxBits-1), 0x7fffffff is PlainFlag - 1, 2^31 is PlainFlag and       *)
(* `as u32` is `% 2^IdxBits`.  Every other layout constant (24-byte        *)
(* header, 4-byte little-endian index words, i8 align) has its real value. *)
(***************************************************************************)
EXTENDS Integers, Sequences, FiniteSets, TLC

(* ------------------------------ bounds --------------------------------- *)
\* the largest number of whole blocks of an input image
MaxBlocks == 6
\* block_size (0x800 in the source), scaled
BlockSize == 16
\* width of an index word (32 in the source), scaled
IdxBits == 7
\* length of lz4's output for a compressible block
ZLen == 4
\* lz4's expansion of an incompressible block, in bytes
RExtra == 1

(* ------------------------- program constants --------------------------- *)
ZSO_MAGIC == 1330858330
ZSO_HEADER_SIZE == 24
ZSO_VER == 1
\* the --align argument's range is 0..5
MaxAlignArg == 5
\* an index word is written and read as 4 little-endian bytes
EntryBytes == 4

(* ------------------------------ arithmetic ----------------------------- *)
RECURSIVE Pow2(_)
Pow2(n) == IF n <= 0 THEN 1 ELSE 2 * Pow2(n - 1)

Shr(x, n) == x \div Pow2(n)

\* 0x80000000, the plain indicator of an index word
PlainFlag == Pow2(IdxBits - 1)

\* a value cast or computed in the width of an index word
AsU32(x) == x % Pow2(IdxBits)

\* a value cast to i8
AsI8(x) == LET m == x % 256 IN IF m >= 128 THEN m - 256 ELSE m

\* x & 0x80000000 > 0
HasPlainBit(x) == (x \div PlainFlag) % 2 = 1

\* x & 0x7fffffff
StripPlain(x) == x % PlainFlag

\* x | 0x80000000
SetPlainBit(x) == IF HasPlainBit(x) THEN x ELSE x + PlainFlag

(* -------------------------------- cells -------------------------------- *)
Byte(n) == <<"b", n, 0>>

RECURSIVE LE(_, _)
\* n little-endian bytes of v (write_u32 / write_u64 / write_i8 of byteorder)
LE(v, n) == IF n = 0 THEN <<>> ELSE <<Byte(v % 256)>> \o LE(v \div 256, n - 1)

RECURSIVE FromLE(_)
\* the value of little-endian bytes (read_u32 / read_u64 of byteorder)
FromLE(cells) ==
    IF cells = <<>> THEN 0 ELSE cells[1][2] + 256 * FromLE(Tail(cells))

Repeat(c, n) == [k \in 1..n |-> c]

\* what a write of data at offset pos leaves in file (pos <= Len(file))
FileWrite(file, pos, data) ==
    [i \in 1..(IF pos + Len(data) > Len(file) THEN pos + Len(data) ELSE Len(file))
        |-> IF i > pos /\ i <= pos + Len(data) THEN data[i - pos] ELSE file[i]]

\* what a read of at most size bytes at offset pos returns (take + read_to_end)
FileRead(file, pos, size) ==
    IF pos >= Len(file) \/ size <= 0 THEN <<>>
    ELSE SubSeq(file, pos + 1,
                IF pos + size > Len(file) THEN Len(file) ELSE pos + size)

(* ------------------------------ lz4_flex ------------------------------- *)
\* the contents a block of the image can have: compressible, incompressible
Kinds == {"z", "r"}

Raw(v) == [k \in 1..BlockSize |-> <<"raw", v, k>>]

CLen(v) == IF v = "z" THEN ZLen ELSE BlockSize + RExtra

\* lz4_flex::block::compress
Compress(v) == [k \in 1..CLen(v) |-> <<"lz", v, k>>]

LzErr == <<"err", <<>>>>
LzOk(data) == <<"ok", data>>
Junk(n) == [k \in 1..n |-> <<"junk", 0, k>>]

\* the contents whose whole compressed form buf starts with
LzPrefix(buf) ==
    {v \in Kinds : Len(buf) >= CLen(v) /\ SubSeq(buf, 1, CLen(v)) = Compress(v)}

\* lz4_flex::block::decompress(buf, bs): the results it can give.  The empty
\* input is an error; a whole compressed block gives the block back; with
\* bytes after it the library either fails or stops at the block's end; on
\* anything else it fails or returns some data of at most bs bytes.
Decompress(buf, bs) ==
    IF buf = <<>> THEN {LzErr}
    ELSE IF LzPrefix(buf) # {} THEN
        LET v == CHOOSE w \in LzPrefix(buf) : TRUE IN
        IF bs < BlockSize THEN {LzErr}
        ELSE IF Len(buf) = CLen(v) THEN {LzOk(Raw(v))}
        ELSE {LzErr, LzOk(Raw(v))}
    ELSE {LzErr, LzOk(Junk(bs))} \cup (IF bs > 0 THEN {LzOk(Junk(bs - 1))} ELSE {})

(* ------------------------------- header -------------------------------- *)
\* the 24 bytes generate_zso_header lays out, for any field values
HeaderBytes(magic, header_size, total_bytes, block_size, ver, align) ==
    LE(magic, 4) \o LE(header_size, 4) \o LE(total_bytes, 8)
        \o LE(block_size, 4) \o LE(ver % 256, 1) \o LE(align % 256, 1)
        \o Repeat(Byte(0), ZSO_HEADER_SIZE - 22)

generate_zso_header(total_bytes, block_size, align) ==
    HeaderBytes(ZSO_MAGIC, ZSO_HEADER_SIZE, total_bytes, block_size, ZSO_VER, align)

read_zso_header(file) ==
    [magic       |-> FromLE(SubSeq(file, 1, 4)),
     header_size |-> FromLE(SubSeq(file, 5, 8)),
     total_bytes |-> FromLE(SubSeq(file, 9, 16)),
     block_size  |-> FromLE(SubSeq(file, 17, 20)),
     ver         |-> AsI8(FromLE(SubSeq(file, 21, 21))),
     align       |-> AsI8(FromLE(SubSeq(file, 22, 22)))]

NoHeader ==
    [magic |-> 0, header_size |-> 0, total_bytes |-> 0, block_size |-> 0,
     ver |-> 0, align |-> 0]

HeaderInvalid_NoSizeCheck(h) ==
    h.magic # ZSO_MAGIC \/ h.block_size = 0 \/ h.total_bytes = 0 \/ h.ver > 1

\* the condition of decompress_zso's "ziso file format error"
HeaderInvalid(h) ==
    h.magic # ZSO_MAGIC \/ h.block_size = 0 \/ h.total_bytes = 0
        \/ h.header_size # 24 \/ h.ver > 1

(* ------------------------------ set_align ------------------------------ *)
set_align_len_NoGuard(pos, align) == Pow2(align) - (pos % Pow2(align))

\* the number of padding bytes set_align writes
set_align_len(pos, align) ==
    IF pos % Pow2(align) > 0 THEN Pow2(align) - (pos % Pow2(align)) ELSE 0

\* the position set_align returns
set_align(pos, align) == pos + set_align_len(pos, align)

(* --------------------------- compress_zso ------------------------------ *)
\* align = if align_arg == 0 { (total_bytes / 2^31) as i8 } else { align_arg }
ChooseAlign(total_bytes, align_arg) ==
    IF align_arg = 0 THEN AsI8(total_bytes \div PlainFlag) ELSE align_arg

StorePlain_Strict(zlen, ilen, percent) == (100 * zlen) \div ilen > percent

\* 100 * zso_data.len() / iso_data.len() >= percent
StorePlain(zlen, ilen, percent) == (100 * zlen) \div ilen >= percent

Placeholders_OneShort(n) == Repeat(Byte(0), EntryBytes * (n - 1))

\* the zero bytes written for an index buffer of n entries
Placeholders(n) == Repeat(Byte(0), EntryBytes * n)

RECURSIVE IndexBytes(_)
\* the index buffer as written by write_u32::<LittleEndian>
IndexBytes(buf) ==
    IF buf = <<>> THEN <<>> ELSE LE(buf[1], EntryBytes) \o IndexBytes(Tail(buf))

RECURSIVE IsoBytes(_)
\* the bytes of an image of whole blocks
IsoBytes(blocks) ==
    IF blocks = <<>> THEN <<>> ELSE Raw(blocks[1]) \o IsoBytes(Tail(blocks))

(* -------------------------------- inputs ------------------------------- *)
RECURSIVE SeqsUpTo(_, _)
SeqsUpTo(S, n) ==
    IF n = 0 THEN {<<>>}
    ELSE LET shorter == SeqsUpTo(S, n - 1) IN
         shorter \cup {Append(s, x) : s \in {t \in shorter : Len(t) = n - 1}, x \in S}

\* the ratio of a compressible block, 100 * ZLen / BlockSize
ZRatio == (100 * ZLen) \div BlockSize

\* thresholds at, just above and far above a compressible block's ratio
Thresholds == {ZRatio, ZRatio + 1, 100}

AlignArgs == 0..MaxAlignArg

\* padding bytes: NUL and 'X' (the default)
Pads == {0, 88}

\* bytes after the last whole block of the image (never read by the encoder)
Tails == {0, BlockSize - 1}

Stale == <<<<"junk", 0, 0>>>>

(* -------------------------------- state -------------------------------- *)
VARIABLES
    pc,          \* where the run is
    err,         \* which panic ended it, "" if none
    mode,        \* "roundtrip": compress then decompress; "decode": decompress a given file
    iso,         \* the input image: the contents of its whole blocks
    tail,        \* the number of bytes of the image after its last whole block
    percent,     \* compress_zso's threshold argument
    align_arg,   \* compress_zso's align argument
    pad,         \* compress_zso's padding byte
    zso,         \* the container file: compress_zso's fout, decompress_zso's fin
    zpos,        \* the file position of compress_zso's fout
    align,       \* compress_zso's align
    total_block, \* compress_zso's total_block
    index_buf,   \* compress_zso's index_buf
    write_pos,   \* compress_zso's write_pos
    block,       \* compress_zso's block
    blk,         \* per written block: set_align's argument and result, the file
                 \* position its payload was written at, and whether it is plain
    idx_writes,  \* the number of times the index region was rewritten
    out,         \* the file at decompress_zso's output path
    out0,        \* what was at that path before decompress_zso ran
    d_hdr,       \* decompress_zso's header fields
    d_index,     \* decompress_zso's index_buf
    d_block,     \* decompress_zso's block
    d_read,      \* per block read: read_pos and read_size, and whether they are exact
    zso_data,    \* lz4_decompress's buffer
    trims        \* the bytes lz4_decompress removed from the buffer of the current block

vars == <<pc, err, mode, iso, tail, percent, align_arg, pad, zso, zpos, align,
          total_block, index_buf, write_pos, block, blk, idx_writes, out, out0,
          d_hdr, d_index, d_block, d_read, zso_data, trims>>

cvars == <<align, total_block, index_buf, write_pos, block, blk, idx_writes, zpos>>
dvars == <<out, d_hdr, d_index, d_block, d_read, zso_data, trims>>
args == <<mode, iso, tail, percent, align_arg, pad, out0>>

\* the size of the input image
TotalBytes == Len(iso) * BlockSize + tail

\* where the index region of a container starts and ends
IndexStart == ZSO_HEADER_SIZE
IndexEnd(n) == ZSO_HEADER_SIZE + EntryBytes * (n + 1)

(* ------------------------- containers given to decode ------------------ *)
\* a container file made by hand: a header of the given fields, an index whose
\* entries point at the data that follows it (not plain), the last entry at the
\* data's end, and g bytes of data that are no compressed block.  With skew 1
\* the last block's entry points past the end of the file; with skew 2 the
\* first of two blocks' entries is above the second's.
CraftedZso(magic, header_size, total_bytes, block_size, ver, al, g, skew) ==
    LET n == IF block_size = 0 THEN 0 ELSE total_bytes \div block_size
        start == set_align(IndexEnd(n), al)
        first == AsU32(Shr(start, al))
        last == AsU32(Shr(start + g, al))
        entry(i) == IF i = n + 1 THEN last
                    ELSE IF skew = 1 /\ i = n THEN first + 4
                    ELSE IF skew = 2 /\ i = 1 /\ n >= 2 THEN first + 4
                    ELSE first
    IN HeaderBytes(magic, header_size, total_bytes, block_size, ver, al)
        \o IndexBytes([i \in 1..(n + 1) |-> entry(i)])
        \o Repeat(Byte(0), start - IndexEnd(n))
        \o Junk(g)

CraftedFiles ==
    {CraftedZso(m, hs, tb, bs, v, al, g, skew) :
        m \in {ZSO_MAGIC, ZSO_MAGIC - 1}, hs \in {ZSO_HEADER_SIZE, ZSO_HEADER_SIZE - 8},
        tb \in {0, BlockSize, 2 * BlockSize}, bs \in {0, BlockSize},
        v \in {-1, 0, ZSO_VER, ZSO_VER + 1}, al \in {0, 1}, g \in {0, 3},
        skew \in {0, 1, 2}}

(* --------------------------------- Init -------------------------------- *)
Init ==
    /\ err = ""
    /\ align = 0 /\ total_block = 0 /\ index_buf = <<>> /\ write_pos = 0
    /\ block = 0 /\ blk = <<>> /\ idx_writes = 0 /\ zpos = 0
    /\ d_hdr = NoHeader /\ d_index = <<>> /\ d_block = 0 /\ d_read = <<>>
    /\ zso_data = <<>> /\ trims = 0
    /\ mode \in {"roundtrip", "decode"}
    /\ IF mode = "roundtrip"
       THEN /\ pc = "c_init"
            /\ iso \in SeqsUpTo(Kinds, MaxBlocks)
            /\ tail \in Tails
            /\ percent \in Thresholds
            /\ align_arg \in AlignArgs
            /\ pad \in Pads
            /\ zso = <<>>
            /\ out0 = <<>>
       ELSE /\ pc = "d_init"
            /\ iso = <<>> /\ tail = 0 /\ percent = 100 /\ align_arg = 0 /\ pad = 88
            /\ zso \in CraftedFiles
            /\ out0 \in {<<>>, Stale}
    /\ out = out0

(* ----------------------------- compress_zso ---------------------------- *)
\* lines 175-210: open the files, choose align, write the header and the
\* placeholder index, take the write position
CompressStart ==
    /\ pc = "c_init"
    /\ LET a == ChooseAlign(TotalBytes, align_arg)
           header == generate_zso_header(TotalBytes, BlockSize, a)
           n == TotalBytes \div BlockSize
           file == header \o Placeholders(n + 1)
       IN /\ align' = a
          /\ total_block' = n
          /\ index_buf' = [i \in 1..(n + 1) |-> 0]
          /\ zso' = file
          /\ zpos' = Len(file)
          /\ write_pos' = Len(file)
    /\ block' = 0
    /\ pc' = "c_block"
    /\ UNCHANGED <<err, blk, idx_writes, args, dvars>>

\* lines 211-253: one turn of the loop over the blocks
CompressBlock ==
    /\ pc = "c_block"
    /\ block < total_block
    /\ LET v == iso[block + 1]
           iso_data == Raw(v)
           lz == Compress(v)
           p == set_align_len(write_pos, align)
           padded == FileWrite(zso, zpos, Repeat(Byte(pad % 256), p))
           wp == write_pos + p
           entry == AsU32(Shr(wp, align))
           plain == StorePlain(Len(lz), Len(iso_data), percent)
           data == IF plain THEN iso_data ELSE lz
       IN IF ~plain /\ HasPlainBit(entry)
          THEN /\ pc' = "c_panic"
               /\ err' = "align"
               /\ zso' = padded
               /\ zpos' = zpos + p
               /\ write_pos' = wp
               /\ index_buf' = [index_buf EXCEPT ![block + 1] = entry]
               /\ UNCHANGED <<block, blk>>
          ELSE /\ zso' = FileWrite(padded, zpos + p, data)
               /\ zpos' = zpos + p + Len(data)
               /\ write_pos' = wp + Len(data)
               /\ index_buf' = [index_buf EXCEPT ![block + 1] =
                                   IF plain THEN SetPlainBit(entry) ELSE entry]
               /\ blk' = Append(blk, [from |-> write_pos, ret |-> wp,
                                      at |-> zpos + p, plain |-> plain])
               /\ block' = block + 1
               /\ UNCHANGED <<pc, err>>
    /\ UNCHANGED <<align, total_block, idx_writes, args, dvars>>

\* lines 255-272: the last entry, then the index written over the placeholders
CompressFinish ==
    /\ pc = "c_block"
    /\ block = total_block
    /\ LET buf == [index_buf EXCEPT ![block + 1] = AsU32(Shr(write_pos, align))]
       IN /\ index_buf' = buf
          /\ zso' = FileWrite(zso, ZSO_HEADER_SIZE, IndexBytes(buf))
          /\ zpos' = ZSO_HEADER_SIZE + Len(IndexBytes(buf))
    /\ idx_writes' = idx_writes + 1
    /\ pc' = "c_done"
    /\ UNCHANGED <<err, align, total_block, write_pos, block, blk, args, dvars>>

(* ---------------------------- decompress_zso --------------------------- *)
\* index word i (from 0) of a container file, read after the 24 header bytes
ReadEntry(file, i) ==
    FromLE(SubSeq(file, ZSO_HEADER_SIZE + EntryBytes * i + 1,
                  ZSO_HEADER_SIZE + EntryBytes * (i + 1)))

\* read_pos = (index & 0x7fffffff) << align, in the width of an index word:
\* the bits shifted out are lost.  (The containers of this model have an align
\* of 0..5; a shift by a negative align or by the word's width is not modelled.)
ReadPos(index, al) == AsU32(StripPlain(index) * Pow2(al))

\* lines 73-100: open the files (File::create empties the output), read and
\* check the header, read the index
DecompressStart ==
    /\ pc \in {"c_done", "d_init"}
    /\ out' = <<>>
    /\ IF Len(zso) < 22
       THEN /\ pc' = "d_panic" /\ err' = "io"
            /\ UNCHANGED <<d_hdr, d_index>>
       ELSE LET h == read_zso_header(zso) IN
            /\ d_hdr' = h
            /\ IF HeaderInvalid(h)
               THEN /\ pc' = "d_panic" /\ err' = "format"
                    /\ UNCHANGED d_index
               ELSE LET n == h.total_bytes \div h.block_size IN
                    IF Len(zso) < IndexEnd(n)
                    THEN /\ pc' = "d_panic" /\ err' = "io"
                         /\ UNCHANGED d_index
                    ELSE /\ d_index' = [i \in 1..(n + 1) |-> ReadEntry(zso, i - 1)]
                         /\ pc' = "d_block"
                         /\ UNCHANGED err
    /\ d_block' = 0
    /\ UNCHANGED <<d_read, zso_data, trims, zso, cvars, args>>

\* decompress_zso's total_block
DTotalBlock == d_hdr.total_bytes \div d_hdr.block_size

\* lines 102-135 and, for a plain block, 136-155: one turn of the loop over
\* the blocks, up to the call of lz4_decompress.  A u32 subtraction that
\* underflows panics in a build with overflow checks and wraps in one without.
DecompressBlock ==
    /\ pc = "d_block"
    /\ d_block < DTotalBlock
    /\ LET index == d_index[d_block + 1]
           plain == HasPlainBit(index)
           idx == StripPlain(index)
           al == d_hdr.align
           read_pos == ReadPos(index, al)
           index2 == StripPlain(d_index[d_block + 2])
           last == d_block = DTotalBlock - 1
           diff == IF last THEN AsU32(Len(zso)) - read_pos ELSE index2 - idx
           underflow == ~plain /\ diff < 0
       IN \E wraps \in (IF underflow THEN BOOLEAN ELSE {TRUE}) :
          IF ~wraps
          THEN /\ pc' = "d_panic" /\ err' = "overflow"
               /\ UNCHANGED <<out, d_block, d_read, zso_data, trims>>
          ELSE LET read_size ==
                       IF plain THEN d_hdr.block_size
                       ELSE IF last THEN AsU32(diff + Pow2(IdxBits))
                       ELSE AsU32(AsU32(diff + Pow2(IdxBits)) * Pow2(al))
                   data == FileRead(zso, read_pos, read_size)
               IN /\ d_read' = Append(d_read,
                                  [pos |-> read_pos, size |-> read_size,
                                   offset |-> idx * Pow2(al), plain |-> plain,
                                   underflow |-> underflow])
                  /\ trims' = 0
                  /\ IF ~plain
                     THEN /\ zso_data' = data
                          /\ pc' = "d_lz4"
                          /\ UNCHANGED <<out, d_block, err>>
                     ELSE /\ zso_data' = <<>>
                          /\ IF Len(data) # d_hdr.block_size
                             THEN /\ pc' = "d_panic" /\ err' = "corruption"
                                  /\ UNCHANGED <<out, d_block>>
                             ELSE /\ out' = out \o data
                                  /\ d_block' = d_block + 1
                                  /\ UNCHANGED <<pc, err>>
    /\ UNCHANGED <<d_hdr, d_index, zso, cvars, args>>

\* lines 59-67 and, once the library accepts the buffer, 143-155: one turn of
\* lz4_decompress's loop.  On the empty buffer compressed.len() - 1 underflows
\* and Vec::remove panics inside lz4_decompress; None is never returned.
Lz4Step ==
    /\ pc = "d_lz4"
    /\ \E dec \in Decompress(zso_data, d_hdr.block_size) :
          IF dec[1] = "err"
          THEN IF zso_data = <<>>
               THEN /\ pc' = "d_panic" /\ err' = "remove"
                    /\ UNCHANGED <<zso_data, trims, out, d_block>>
               ELSE /\ zso_data' = SubSeq(zso_data, 1, Len(zso_data) - 1)
                    /\ trims' = trims + 1
                    /\ UNCHANGED <<pc, err, out, d_block>>
          ELSE IF Len(dec[2]) # d_hdr.block_size
               THEN /\ pc' = "d_panic" /\ err' = "corruption"
                    /\ UNCHANGED <<zso_data, trims, out, d_block>>
               ELSE /\ out' = out \o dec[2]
                    /\ d_block' = d_block + 1
                    /\ zso_data' = <<>>
                    /\ pc' = "d_block"
                    /\ UNCHANGED <<err, trims>>
    /\ UNCHANGED <<d_hdr, d_index, d_read, zso, cvars, args>>

\* lines 157-160: every block is written
DecompressFinish ==
    /\ pc = "d_block"
    /\ d_block = DTotalBlock
    /\ pc' = "d_done"
    /\ UNCHANGED <<err, zso, cvars, dvars, args>>

Next ==
    \/ CompressStart
    \/ CompressBlock
    \/ CompressFinish
    \/ DecompressStart
    \/ DecompressBlock
    \/ Lz4Step
    \/ DecompressFinish

Spec == Init /\ [][Next]_vars

(* ------------------------------ the claims ----------------------------- *)
\* compress_zso has written its header and placeholders
Encoding == mode = "roundtrip" /\ pc # "c_init"

\* compress_zso has ended without a panic
Encoded == mode = "roundtrip" /\ pc \notin {"c_init", "c_block", "c_panic"}

\* decompress_zso has read the header
Decoding == pc \in {"d_block", "d_lz4", "d_done", "d_panic"} /\ err # "io"

\* the length of block i's stored payload
StoredLen(i) == IF blk[i].plain THEN BlockSize ELSE CLen(iso[i])

\* C1: round trip: for an image of whole blocks, once decompress_zso has ended
\* on the container compress_zso wrote, the output is the image, byte for byte.
C1_RoundTrip ==
    (mode = "roundtrip" /\ tail = 0 /\ pc \in {"d_done", "d_panic"})
        => out = IsoBytes(iso)

\* C2: alignment overflow is fatal: no block, plain or compressed, is written
\* at an aligned position whose shifted value uses the plain bit, so no entry
\* of a successful encode has a plain bit that comes from the offset.
C2_OverflowIsFatal ==
    Encoding =>
        /\ \A i \in 1..Len(blk) : Shr(blk[i].ret, align) < PlainFlag
        /\ \A i \in 1..Len(blk) : HasPlainBit(AsU32(Shr(blk[i].ret, align))) = FALSE

\* C3: automatic alignment is sufficient: with align argument 0, align is
\* floor(total_bytes / 2^31), fits an i8, and every block's aligned position
\* and the final size, shifted by align, fit in 31 bits.
C3_AutoAlignSuffices ==
    (Encoding /\ align_arg = 0) =>
        /\ align = TotalBytes \div PlainFlag
        /\ align \in 0..127
        /\ \A i \in 1..Len(blk) : Shr(blk[i].ret, align) < PlainFlag
        /\ Encoded => Shr(write_pos, align) < PlainFlag

\* C4: the trim loop removes at most 2^align bytes and ends with a block or
\* with the corruption failure decompress_zso reports; it never panics inside
\* lz4_decompress.
C4_TrimBound ==
    Decoding =>
        /\ trims <= Pow2(d_hdr.align)
        /\ err # "remove"

\* C5: every block's payload starts at a file offset divisible by 2^align;
\* set_align writes p padding bytes, 0 <= p < 2^align, reaching the next
\* multiple of 2^align, and the position it returns is the file position.
C5_Alignment ==
    Encoding =>
        /\ pc \in {"c_block", "c_panic"} => write_pos = zpos
        /\ \A i \in 1..Len(blk) :
              LET b == blk[i] IN
              /\ b.ret - b.from >= 0
              /\ b.ret - b.from < Pow2(align)
              /\ b.ret % Pow2(align) = 0
              /\ b.ret = b.at
              /\ b.ret <= Len(zso)
              /\ \A k \in (b.from + 1)..b.ret : zso[k] = Byte(pad % 256)
              /\ b.at < Len(zso)
              /\ zso[b.at + 1] \in {<<"raw", iso[i], 1>>, <<"lz", iso[i], 1>>}

C5_Witness ==
    /\ pc = "c_done"
    /\ align >= 2
    /\ \E i \in 1..Len(blk) : blk[i].ret > blk[i].from
    /\ \E i \in 1..Len(blk) : blk[i].ret = blk[i].from

\* C6: in the index a successful compress_zso wrote, the offsets with the
\* plain bit stripped never decrease, the final entry included.
C6_Monotone ==
    Encoded =>
        \A i \in 0..(total_block - 1) :
            StripPlain(ReadEntry(zso, i + 1)) >= StripPlain(ReadEntry(zso, i))

\* C7: a block is stored plain, as its own bytes, exactly when
\* 100 * compressed_len / block_size >= threshold, and as the LZ4 payload
\* otherwise; its index entry has the plain bit exactly when it is plain.
C7_Decision ==
    Encoding =>
        \A i \in 1..Len(blk) :
            LET v == iso[i]
                wantPlain == (100 * CLen(v)) \div BlockSize >= percent
                want == IF wantPlain THEN Raw(v) ELSE Compress(v)
                end == blk[i].at + Len(want)
            IN /\ Len(zso) >= end
               /\ SubSeq(zso, blk[i].at + 1, end) = want
               /\ (IF i < Len(blk) THEN blk[i + 1].from ELSE write_pos) = end
               /\ HasPlainBit(index_buf[i]) = wantPlain
               /\ Encoded => HasPlainBit(ReadEntry(zso, i - 1)) = wantPlain

C7_Witness ==
    /\ pc = "c_done"
    /\ \E i \in 1..Len(blk) : iso[i] = "z" /\ percent = ZRatio /\ blk[i].plain
    /\ \E i \in 1..Len(blk) : iso[i] = "r" /\ blk[i].plain

\* a finished encode with a compressed and a plain block
C7_WitnessCompressed ==
    /\ pc = "c_done"
    /\ \E i \in 1..Len(blk) : iso[i] = "z" /\ ~blk[i].plain
    /\ \E i \in 1..Len(blk) : iso[i] = "r" /\ blk[i].plain

\* the claim's list of what makes a header invalid
FormatErrorExpected ==
    \/ d_hdr.magic # ZSO_MAGIC
    \/ d_hdr.header_size # 24
    \/ d_hdr.ver > ZSO_VER
    \/ d_hdr.total_bytes = 0
    \/ d_hdr.block_size = 0

\* C8 as stated: the format error is raised exactly on a bad magic, a header
\* size other than 24, a version above the maximum or a zero size, and then
\* no block is read and the output is as it was before the run.
C8_Original ==
    Decoding =>
        /\ (err = "format") = FormatErrorExpected
        /\ err = "format" => (d_read = <<>> /\ d_block = 0 /\ out = out0)

\* C8 as amended: the same, but the output is the empty file that
\* open_input_output created: no byte is written to it, and whatever was at
\* the output path before is gone.
C8_FormatError ==
    Decoding =>
        /\ (err = "format") = FormatErrorExpected
        /\ err = "format" => (d_read = <<>> /\ d_block = 0 /\ out = <<>>)

C8_Witness ==
    /\ pc = "d_panic" /\ err = "format"
    /\ d_hdr.magic = ZSO_MAGIC /\ d_hdr.header_size # 24
    /\ d_hdr.total_bytes > 0 /\ d_hdr.block_size > 0 /\ d_hdr.ver <= ZSO_VER
    /\ out0 # <<>>

\* C9: for every block of a container compress_zso wrote, the decoder's
\* read_pos is (index & 0x7fffffff) << align with no bit lost, is where the
\* encoder wrote the block, and the read size is not negative and covers the
\* stored payload.
C9_ReadRange ==
    (mode = "roundtrip" /\ Decoding) =>
        /\ err # "overflow"
        /\ \A i \in 1..Len(d_read) :
              /\ d_read[i].pos = d_read[i].offset
              /\ d_read[i].pos = blk[i].at
              /\ ~d_read[i].underflow
              /\ d_read[i].size >= StoredLen(i)

\* C10: the header, then total_blocks + 1 zero words; the index region stays
\* zero while the blocks are written in order, also when the encode aborts;
\* the entries are written once, after the last block, the final one being
\* the final write position shifted by align (as a u32).
C10_Backpatch ==
    Encoding =>
        /\ Len(zso) >= IndexEnd(total_block)
        /\ SubSeq(zso, 1, ZSO_HEADER_SIZE)
              = generate_zso_header(TotalBytes, BlockSize, align)
        /\ Len(blk) = block
        /\ \A i \in 1..Len(blk) :
              /\ blk[i].at >= IndexEnd(total_block)
              /\ i < Len(blk) => blk[i].at + StoredLen(i) <= blk[i + 1].at
        /\ (pc = "c_block" /\ block = 0) => Len(zso) = IndexEnd(total_block)
        /\ pc \in {"c_block", "c_panic"} =>
              /\ idx_writes = 0
              /\ \A k \in (IndexStart + 1)..IndexEnd(total_block) : zso[k] = Byte(0)
        /\ Encoded =>
              /\ idx_writes = 1
              /\ block = total_block
              /\ index_buf[total_block + 1] = AsU32(Shr(write_pos, align))
              /\ write_pos = Len(zso)
              /\ \A i \in 0..total_block :
                    ReadEntry(zso, i) = index_buf[i + 1]

C10_Witness ==
    /\ pc = "c_done"
    /\ total_block >= 2
    /\ \A i \in 0..total_block : ReadEntry(zso, i) > 0

\* an encode that aborted after it had written blocks
C10_WitnessAbort ==
    /\ pc = "c_panic"
    /\ block >= 2
====
